---- MODULE Spec2Model ----
(***************************************************************************)
(* VoiceRagAgent backend: document ingestion (upload_equipment_documents   *)
(* in app/routers/equipment.py) and query-time retrieval                   *)
(* (RAGService.retrieve in app/services/rag.py) over the shared Mongo      *)
(* collections equipment, documents_metadata and document_chunks.          *)
(*                                                                         *)
(* Spec          one upload request at a time, stepped at every statement   *)
(*               that can raise or touch storage; the environment (file     *)
(*               reads, text extraction, the splitter, storage faults) is   *)
(*               chosen at each step and logged in the ghost record g.      *)
(* RetrieveSpec  retrieve calls over an arbitrary chunk collection.         *)
(* ToolSpec      a voice session (run_bot in app/bot.py) and the calls of   *)
(*               its search_knowledge_base tool.                            *)
(* ApiSpec       get_one_equipment, list_equipment_documents and            *)
(*               delete_equipment, one request at a time, over the records  *)
(*               finished uploads leave behind.                             *)
(* CreateSpec    create_equipment requests, interleaved at storage calls.   *)
(* StoreSpec     uploads and equipment deletions, one request at a time.    *)
(* RaceSpec      an upload and a deletion running at the same time.         *)
(* SessionsSpec  retrieve calls of concurrent sessions, interleaved at      *)
(*               their awaits, over the process-wide random generator.      *)
(* RateSpec      the rate limit of the upload endpoint, over a clock.       *)
(***************************************************************************)
EXTENDS Integers, Sequences, FiniteSets, TLC

VARIABLES
    equipment,      \* db.equipment: set of equipment records
    documents,      \* db.documents_metadata: set of Document records
    chunks,         \* db[DOCUMENT_CHUNKS_COLLECTION]: set of Chunk records
    nextId,         \* next ObjectId the storage hands out for a Document
    tmpfs,          \* temporary files that exist on disk
    started,        \* number of files whose processing has begun (all requests)
    pc,             \* position of the upload handler
    req,            \* the upload request: equipment_id, number of files
    tenant_id,      \* upload local: tenant_id
    fileIdx,        \* upload local: position of the for loop over files
    created_docs,   \* upload local: created_docs
    response,       \* the HTTP response of the upload request
    f,              \* upload locals of the file being processed
    g,              \* ghost: what the environment did to the current file
    rq,             \* the retrieve call and its outcome
    api,            \* the equipment endpoint being served, and its response
    cr,             \* the create_equipment requests, by request number
    tool,           \* the search_knowledge_base tool call of a voice session
    rng,            \* numpy's process-wide random generator
    calls,          \* the retrieve calls of concurrent sessions, by session
    limiter         \* the rate limiter's storage, the clock, and what it answered

dbvars == <<equipment, documents, chunks, nextId, tmpfs>>
upvars == <<started, pc, req, tenant_id, fileIdx, created_docs, response, f, g>>
vars == <<equipment, documents, chunks, nextId, tmpfs, started, pc, req,
          tenant_id, fileIdx, created_docs, response, f, g, rq, api, cr, tool,
          rng, calls, limiter>>
convars == <<rng, calls, limiter>>

----------------------------------------------------------------------------
(* Bounds of the model *)

MaxFiles == 2
MaxChunks == 2
MaxStore == 2
MaxCreates == 2
MaxUploads == 1
MaxTime == 2

----------------------------------------------------------------------------
(* Identifiers, settings and texts *)

\* settings.TENANT_ID
TENANT_ID == "mvp_tenant"

\* 24-hex-character strings, the only ones bson.ObjectId accepts; "e9" is
\* well-formed but names no equipment, "bad" is malformed, "" is no id.
HexIds == {"e1", "e2", "e9"}
IdStrings == HexIds \cup {"bad", ""}

ValidObjectId(s) == s \in HexIds

\* bson.ObjectId(s) for a well-formed s: a value of another type than s
ObjectId(s) == [oid |-> s]

\* str(oid)
StrOfObjectId(o) == o.oid

\* what text extraction can hand back: nothing, whitespace only, real text
ExtractedTexts == {"", " ", "text"}

\* the segments the splitter can produce
ChunkTexts == {" ", "alpha"}

\* `not text or not text.strip()`
IsBlank(text) == text \in {"", " "}

----------------------------------------------------------------------------
(* Records and storage operations *)

\* equipment.get("tenant_id") or settings.TENANT_ID
TenantOf(e) == IF e.tenant_id # "" THEN e.tenant_id ELSE TENANT_ID

\* DocDict with the status written too early
DocDict_completed(eid, tenant, name) ==
    [_id |-> ObjectId(0), equipment_id |-> ObjectId(eid), tenant_id |-> tenant,
     file_name |-> name, embedding_status |-> "completed",
     embedding_error |-> FALSE]

\* doc_dict as built before the insert: status "processing", no _id yet
DocDict(eid, tenant, name) ==
    [_id |-> ObjectId(0), equipment_id |-> ObjectId(eid), tenant_id |-> tenant,
     file_name |-> name, embedding_status |-> "processing",
     embedding_error |-> FALSE]

\* ChunkDoc with the index counted from 1, as enumerate(chunks, 1) would
ChunkDoc_from1(document_id, eid, tenant, name, index, text) ==
    [chunk_id |-> <<document_id.oid, index>>, document_id |-> document_id,
     equipment_id |-> ObjectId(eid), tenant_id |-> tenant, file_name |-> name,
     chunk_index |-> index + 1, text |-> text, is_disabled |-> FALSE]

\* ChunkDoc that stamps the default tenant instead of the equipment's
ChunkDoc_defaultTenant(document_id, eid, tenant, name, index, text) ==
    [chunk_id |-> <<document_id.oid, index>>, document_id |-> document_id,
     equipment_id |-> ObjectId(eid), tenant_id |-> TENANT_ID, file_name |-> name,
     chunk_index |-> index, text |-> text, is_disabled |-> FALSE]

\* chunk_doc built for the chunk at position index (0-based) of the file
ChunkDoc(document_id, eid, tenant, name, index, text) ==
    [chunk_id |-> <<document_id.oid, index>>, document_id |-> document_id,
     equipment_id |-> ObjectId(eid), tenant_id |-> tenant, file_name |-> name,
     chunk_index |-> index, text |-> text, is_disabled |-> FALSE]

\* embedding_service.embed_text(text) raises ValueError on blank text
EmbedRaises(text) == IF IsBlank(text) THEN TRUE ELSE FALSE

\* EmbedLoop with `break` in place of `continue`: the first chunk whose
\* embedding raises ends the loop
RECURSIVE EmbedLoop_break(_, _, _, _, _, _)
EmbedLoop_break(cs, index, document_id, eid, tenant, name) ==
    IF index >= Len(cs) \/ EmbedRaises(cs[index + 1]) THEN <<>>
    ELSE <<ChunkDoc(document_id, eid, tenant, name, index, cs[index + 1])>>
         \o EmbedLoop_break(cs, index + 1, document_id, eid, tenant, name)

\* the for loop over enumerate(chunks): a chunk whose embedding raises is
\* logged and dropped, the others are appended in order with their index
RECURSIVE EmbedLoop(_, _, _, _, _, _)
EmbedLoop(cs, index, document_id, eid, tenant, name) ==
    IF index >= Len(cs) THEN <<>>
    ELSE LET rest == EmbedLoop(cs, index + 1, document_id, eid, tenant, name)
         IN  IF EmbedRaises(cs[index + 1]) THEN rest
             ELSE <<ChunkDoc(document_id, eid, tenant, name, index,
                             cs[index + 1])>> \o rest

\* embedding_service.split_text(text): no chunk for blank text, otherwise
\* whatever the splitter yields
SplitText(text) ==
    IF IsBlank(text) THEN {<<>>}
    ELSE UNION {[1..n -> ChunkTexts] : n \in 0..MaxChunks}

\* FailedUpdate without the error detail
FailedUpdate_nodetail(d) == [d EXCEPT !.embedding_status = "failed"]

\* the $set of the update that marks a Document failed
FailedUpdate(d) ==
    [d EXCEPT !.embedding_status = "failed", !.embedding_error = TRUE]

\* the $set of the update that marks a Document completed
CompletedUpdate(d) == [d EXCEPT !.embedding_status = "completed"]

\* documents_metadata.update_one({"_id": id}, {"$set": ...}); Upd is applied
\* to the matching record, and matching nothing is no error
UpdateOneFailed(docs, id) ==
    {IF d._id = id THEN FailedUpdate(d) ELSE d : d \in docs}

UpdateOneCompleted(docs, id) ==
    {IF d._id = id THEN CompletedUpdate(d) ELSE d : d \in docs}

\* the entry appended to created_docs: doc_dict itself, ids turned to strings
ResponseEntry(doc_dict) ==
    [_id |-> StrOfObjectId(doc_dict._id),
     equipment_id |-> StrOfObjectId(doc_dict.equipment_id),
     tenant_id |-> doc_dict.tenant_id, file_name |-> doc_dict.file_name,
     embedding_status |-> doc_dict.embedding_status]

\* SkipsUnsupported with the `continue` forgotten after the warning
SkipsUnsupported_never(sup) == FALSE

\* `if not text_extractor.is_supported(...): continue`
SkipsUnsupported(sup) == ~sup

\* the per-file handler `except Exception as e: logger.error(f"Error
\* processing file {file.filename}: {e}", exc_info=True); continue`. loguru
\* formats a message that comes with keyword arguments by
\* message.format(**kwargs), so when the text built by the f-string (the file
\* name, the exception text) holds a brace, the call raises inside the
\* handler and the exception leaves the loop.
HandlerRaises(outcome, brace) == outcome = "error" /\ brace

Http(status, docs) == [status |-> status, documents |-> docs, count |-> Len(docs)]

NoResponse == Http(0, <<>>)

FileLocals0 ==
    [temp_file_path |-> 0, extracted_text |-> "", chunks |-> <<>>,
     document_id |-> ObjectId(0), doc_dict |-> DocDict("", "", 0),
     chunk_documents |-> <<>>]

\* ghost of a file: the environment's choices so far, and the collections as
\* they were when the file began
FreshGhost(docs, cks) ==
    [read_ok |-> TRUE, supported |-> TRUE, tmp |-> "none", extract |-> "none",
     fault |-> "none", inserted |-> 0, insert_many_called |-> FALSE,
     outcome |-> "pending", handler_raised |-> FALSE,
     docs0 |-> docs, chunks0 |-> cks]

----------------------------------------------------------------------------
(* upload_equipment_documents, POST /equipment/{equipment_id}/documents *)

EndFile(how) == [g EXCEPT !.outcome = how]

\* A client posts n files for equipment_id eid.
Request(eid, n) ==
    /\ pc = "idle"
    /\ started + n <= MaxFiles
    /\ req' = [equipment_id |-> eid, nfiles |-> n]
    /\ response' = NoResponse
    /\ pc' = "find"
    /\ UNCHANGED <<dbvars, started, tenant_id, fileIdx, created_docs, f, g, rq,
                   api, cr, tool, convars>>

\* db.equipment.find_one({"_id": ObjectId(equipment_id)}): ObjectId raises
\* InvalidId on a malformed id and nothing catches it; no equipment is a 404.
FindEquipment ==
    /\ pc = "find"
    /\ \E ok \in BOOLEAN :
        LET found == {e \in equipment : ValidObjectId(req.equipment_id)
                                        /\ e._id = ObjectId(req.equipment_id)}
        IN  IF ~ValidObjectId(req.equipment_id) \/ ~ok
            THEN /\ response' = Http(500, <<>>)
                 /\ pc' = "done"
                 /\ UNCHANGED <<started, tenant_id, fileIdx, created_docs, f, g>>
            ELSE IF found = {}
            THEN /\ response' = Http(404, <<>>)
                 /\ pc' = "done"
                 /\ UNCHANGED <<started, tenant_id, fileIdx, created_docs, f, g>>
            ELSE /\ tenant_id' = TenantOf(CHOOSE e \in found : TRUE)
                 /\ created_docs' = <<>>
                 /\ fileIdx' = 1
                 /\ started' = started + 1
                 /\ f' = FileLocals0
                 /\ g' = FreshGhost(documents, chunks)
                 /\ pc' = "read"
                 /\ UNCHANGED response
    /\ UNCHANGED <<dbvars, req, rq,
                   api, cr, tool, convars>>

\* data = await file.read(), outside the inner try: a failure goes straight
\* to the per-file except.
ReadFile ==
    /\ pc = "read"
    /\ \E ok \in BOOLEAN :
        /\ g' = [g EXCEPT !.read_ok = ok,
                          !.outcome = IF ok THEN "pending" ELSE "error"]
        /\ pc' = IF ok THEN "supported" ELSE "file_end"
    /\ UNCHANGED <<dbvars, started, req, tenant_id, fileIdx, created_docs,
                   response, f, rq,
                   api, cr, tool, convars>>

\* text_extractor.is_supported(content_type, original_name)
CheckSupported ==
    /\ pc = "supported"
    /\ \E sup \in BOOLEAN :
        /\ g' = [g EXCEPT !.supported = sup,
                          !.outcome = IF SkipsUnsupported(sup) THEN "skipped"
                                      ELSE "pending"]
        /\ pc' = IF SkipsUnsupported(sup) THEN "file_end" ELSE "tmp"
    /\ UNCHANGED <<dbvars, started, req, tenant_id, fileIdx, created_docs,
                   response, f, rq,
                   api, cr, tool, convars>>

\* with tempfile.NamedTemporaryFile(delete=False) as tmp: tmp.write(data);
\* temp_file_path = tmp.name. The file exists from its creation on, and
\* temp_file_path is set only after the write.
WriteTemp ==
    /\ pc = "tmp"
    /\ \E r \in {"ok", "create_failed", "write_failed"} :
        /\ tmpfs' = IF r = "create_failed" THEN tmpfs ELSE tmpfs \cup {started}
        /\ f' = [f EXCEPT !.temp_file_path = IF r = "ok" THEN started ELSE 0]
        /\ g' = [g EXCEPT !.tmp = r,
                          !.outcome = IF r = "ok" THEN "pending" ELSE "error"]
        /\ pc' = IF r = "ok" THEN "extract" ELSE "finally"
    /\ UNCHANGED <<equipment, documents, chunks, nextId, started, req,
                   tenant_id, fileIdx, created_docs, response, rq,
                   api, cr, tool, convars>>

\* text_extractor.extract_text(temp_file_path, content_type): every
\* exception is logged and the file skipped.
ExtractText ==
    /\ pc = "extract"
    /\ \E r \in {"ok", "ValueError", "FileNotFoundError", "Exception"} :
       \E t \in ExtractedTexts :
        /\ r # "ok" => t = ""
        /\ f' = [f EXCEPT !.extracted_text = t]
        /\ g' = [g EXCEPT !.extract = r,
                          !.outcome = IF r = "ok" THEN "pending" ELSE "skipped"]
        /\ pc' = IF r = "ok" THEN "check_text" ELSE "finally"
    /\ UNCHANGED <<dbvars, started, req, tenant_id, fileIdx, created_docs,
                   response, rq,
                   api, cr, tool, convars>>

\* `if not extracted_text or not extracted_text.strip(): continue`
CheckText ==
    /\ pc = "check_text"
    /\ IF IsBlank(f.extracted_text)
       THEN g' = EndFile("skipped") /\ pc' = "finally"
       ELSE g' = g /\ pc' = "split"
    /\ UNCHANGED <<dbvars, started, req, tenant_id, fileIdx, created_docs,
                   response, f, rq,
                   api, cr, tool, convars>>

\* chunks = embedding_service.split_text(extracted_text); no chunk raises
\* ValueError("NO_CHUNKS")
SplitChunks ==
    /\ pc = "split"
    /\ \E cs \in SplitText(f.extracted_text) :
        /\ f' = [f EXCEPT !.chunks = cs]
        /\ IF cs = <<>>
           THEN g' = EndFile("error") /\ pc' = "finally"
           ELSE g' = g /\ pc' = "insert_doc"
    /\ UNCHANGED <<dbvars, started, req, tenant_id, fileIdx, created_docs,
                   response, rq,
                   api, cr, tool, convars>>

\* doc_result = await db.documents_metadata.insert_one(doc_dict), then the
\* embedding loop (synchronous: no await in it).
InsertDoc ==
    /\ pc = "insert_doc"
    /\ \E ok \in BOOLEAN :
        IF ok
        THEN LET id == ObjectId(nextId)
                 dd == [DocDict(req.equipment_id, tenant_id, started)
                            EXCEPT !._id = id]
                 cd == EmbedLoop(f.chunks, 0, id, req.equipment_id, tenant_id,
                                 started)
             IN  /\ documents' = documents \cup {dd}
                 /\ nextId' = nextId + 1
                 /\ f' = [f EXCEPT !.document_id = id, !.doc_dict = dd,
                                   !.chunk_documents = cd]
                 /\ g' = g
                 /\ pc' = IF cd = <<>> THEN "mark_failed" ELSE "insert_chunks"
        ELSE /\ g' = [g EXCEPT !.fault = "insert_one", !.outcome = "error"]
             /\ pc' = "finally"
             /\ UNCHANGED <<documents, nextId, f>>
    /\ UNCHANGED <<equipment, chunks, tmpfs, started, req, tenant_id, fileIdx,
                   created_docs, response, rq,
                   api, cr, tool, convars>>

\* `if not chunk_documents:` update_one(... "failed" ...) and raise
\* Exception("EMBEDDING_FAILED")
MarkFailed ==
    /\ pc = "mark_failed"
    /\ \E ok \in BOOLEAN :
        /\ documents' = IF ok THEN UpdateOneFailed(documents, f.document_id)
                        ELSE documents
        /\ g' = [g EXCEPT !.fault = IF ok THEN "none" ELSE "update_failed",
                          !.outcome = "error"]
    /\ pc' = "finally"
    /\ UNCHANGED <<equipment, chunks, nextId, tmpfs, started, req, tenant_id,
                   fileIdx, created_docs, response, f, rq,
                   api, cr, tool, convars>>

\* await db[DOCUMENT_CHUNKS_COLLECTION].insert_many(chunk_documents): an
\* ordered bulk insert, which on a failure has written a prefix j of the list
InsertChunks ==
    /\ pc = "insert_chunks"
    /\ \E j \in 0..Len(f.chunk_documents) :
        /\ chunks' = chunks \cup {f.chunk_documents[i] : i \in 1..j}
        /\ IF j = Len(f.chunk_documents)
           THEN /\ g' = [g EXCEPT !.insert_many_called = TRUE, !.inserted = j]
                /\ pc' = "mark_completed"
           ELSE /\ g' = [g EXCEPT !.insert_many_called = TRUE, !.inserted = j,
                                  !.fault = "insert_many", !.outcome = "error"]
                /\ pc' = "finally"
    /\ UNCHANGED <<equipment, documents, nextId, tmpfs, started, req,
                   tenant_id, fileIdx, created_docs, response, f, rq,
                   api, cr, tool, convars>>

\* update_one(... "completed" ...), then doc_dict is appended to created_docs
MarkCompleted ==
    /\ pc = "mark_completed"
    /\ \E ok \in BOOLEAN :
        IF ok
        THEN /\ documents' = UpdateOneCompleted(documents, f.document_id)
             /\ created_docs' = Append(created_docs, ResponseEntry(f.doc_dict))
             /\ g' = EndFile("ok")
        ELSE /\ g' = [g EXCEPT !.fault = "update_completed",
                               !.outcome = "error"]
             /\ UNCHANGED <<documents, created_docs>>
    /\ pc' = "finally"
    /\ UNCHANGED <<equipment, chunks, nextId, tmpfs, started, req, tenant_id,
                   fileIdx, response, f, rq,
                   api, cr, tool, convars>>

\* finally: `if temp_file_path and os.path.exists(temp_file_path):
\* os.remove(temp_file_path)`
Finally ==
    /\ pc = "finally"
    /\ tmpfs' = IF f.temp_file_path # 0 THEN tmpfs \ {f.temp_file_path}
                ELSE tmpfs
    /\ pc' = "file_end"
    /\ UNCHANGED <<equipment, documents, chunks, nextId, started, req,
                   tenant_id, fileIdx, created_docs, response, f, g, rq,
                   api, cr, tool, convars>>

\* A file has ended. When it ended in the per-file except, the handler logs
\* (and may raise, which the application answers with its generic 500); then
\* the for loop takes the next file, or the request returns
\* {"documents": created_docs, "count": len(created_docs)}.
NextFile ==
    /\ pc = "file_end"
    /\ \E brace \in BOOLEAN :
        IF HandlerRaises(g.outcome, brace)
        THEN /\ response' = Http(500, <<>>)
             /\ pc' = "done"
             /\ g' = [g EXCEPT !.handler_raised = TRUE]
             /\ UNCHANGED <<started, fileIdx, f>>
        ELSE IF fileIdx < req.nfiles
        THEN /\ fileIdx' = fileIdx + 1
             /\ started' = started + 1
             /\ f' = FileLocals0
             /\ g' = FreshGhost(documents, chunks)
             /\ pc' = "read"
             /\ UNCHANGED response
        ELSE /\ response' = Http(201, created_docs)
             /\ pc' = "done"
             /\ UNCHANGED <<started, fileIdx, f, g>>
    /\ UNCHANGED <<dbvars, req, tenant_id, created_docs, rq,
                   api, cr, tool, convars>>

\* The response has been sent; the handler's locals are gone.
Return ==
    /\ pc = "done"
    /\ pc' = "idle"
    /\ fileIdx' = 0
    /\ created_docs' = <<>>
    /\ tenant_id' = ""
    /\ f' = FileLocals0
    /\ g' = FreshGhost({}, {})
    /\ req' = [equipment_id |-> "", nfiles |-> 0]
    /\ response' = NoResponse
    /\ UNCHANGED <<dbvars, started, rq,
                   api, cr, tool, convars>>

\* the sessions that call retrieve at the same time
Sessions == {"s1", "s2"}

\* a session that is not inside a retrieve call
NoSession == [pc |-> "none"]

\* numpy's global generator as the process starts: seeded by the system, no
\* value drawn yet
NpFresh == [seed |-> 0, drawn |-> 0]

\* the client identifiers of the model
Clients == {"c1", "c2"}

\* the limiter as the process starts: memory:// storage with no key, the
\* clock at 0, nothing admitted and nothing answered yet
Limiter0 ==
    [now |-> 0,
     storage |-> [c \in Clients |-> [count |-> 0, expires |-> 0]],
     admitted_now |-> [c \in Clients |-> 0],
     admitted_prev |-> [c \in Clients |-> 0],
     in_window |-> [c \in Clients |-> 0],
     seen |-> {},
     last |-> [client |-> "", status |-> 0, first |-> FALSE, before |-> 0]]

NoCall == [state |-> "none"]

\* the equipment collection at the start: "pump" of tenant t1, and "fan"
\* stored without a tenant
Equipment0 ==
    {[_id |-> ObjectId("e1"), tenant_id |-> "t1", name |-> "pump"],
     [_id |-> ObjectId("e2"), tenant_id |-> "", name |-> "fan"]}

\* no equipment endpoint is being served
NoApi == [op |-> "none", pc |-> "none"]

\* no create_equipment request has arrived
NoCreate == [pc |-> "none"]

\* no voice session is open
NoTool == [pc |-> "none"]

Init ==
    /\ equipment = Equipment0
    /\ documents = {}
    /\ chunks = {}
    /\ nextId = 1
    /\ tmpfs = {}
    /\ started = 0
    /\ pc = "idle"
    /\ req = [equipment_id |-> "", nfiles |-> 0]
    /\ tenant_id = ""
    /\ fileIdx = 0
    /\ created_docs = <<>>
    /\ response = NoResponse
    /\ f = FileLocals0
    /\ g = FreshGhost({}, {})
    /\ rq = NoCall
    /\ api = NoApi
    /\ cr = [i \in 1..MaxCreates |-> NoCreate]
    /\ tool = NoTool
    /\ rng = NpFresh
    /\ calls = [s \in Sessions |-> NoSession]
    /\ limiter = Limiter0

Next ==
    \/ \E eid \in IdStrings \ {""} : \E n \in 1..MaxFiles : Request(eid, n)
    \/ FindEquipment
    \/ ReadFile
    \/ CheckSupported
    \/ WriteTemp
    \/ ExtractText
    \/ CheckText
    \/ SplitChunks
    \/ InsertDoc
    \/ MarkFailed
    \/ InsertChunks
    \/ MarkCompleted
    \/ Finally
    \/ NextFile
    \/ Return

Spec == Init /\ [][Next]_vars

----------------------------------------------------------------------------
(* RAGService.retrieve *)

\* a $match condition on one field: equality, or {"$ne": v}
Eq(v) == [op |-> "eq", val |-> v]

Ne(v) == [op |-> "$ne", val |-> v]

Holds(cond, value) ==
    IF cond.op = "$ne" THEN value # cond.val ELSE value = cond.val

\* {"$match": match_filters}: every condition holds of the record
Matches(c, match_filters) ==
    \A k \in DOMAIN match_filters : Holds(match_filters[k], c[k])

\* dict.update: the keys of the second dict win
DictUpdate(a, b) == b @@ a

EmptyDict == <<>>

\* embeddings_service.embed_text(query): a vector that depends on the text
\* alone; the texts of the model get the vectors 1 and 2
EmbedText(text) == IF text = "alpha" THEN 1 ELSE 2

\* searchScore of a stored chunk for the query vector: the closer, the higher
SearchScore(qv, c) ==
    LET cv == EmbedText(c.text)
    IN  IF cv >= qv THEN qv - cv ELSE cv - qv

\* SearchK without the over-fetch: the search is asked for k neighbours
SearchK_k(k) == k

\* search_k = max(k * 20, 100)
SearchK(k) == IF k * 20 >= 100 THEN k * 20 ELSE 100

\* EquipmentFilter that never sets the filter
EquipmentFilter_skipped(mf, equipment_id) == mf

\* `if equipment_id:` the filter is set when ObjectId(equipment_id) does
\* not raise, and skipped (with a warning) when it does
EquipmentFilter(mf, equipment_id) ==
    IF equipment_id # "" /\ ValidObjectId(equipment_id)
    THEN DictUpdate(mf, "equipment_id" :> Eq(ObjectId(equipment_id)))
    ELSE mf

\* `if tenant_id:`
TenantFilter(mf, tenant) ==
    IF tenant # "" THEN DictUpdate(mf, "tenant_id" :> Eq(tenant)) ELSE mf

\* `if extra_filters: match_filters.update(extra_filters)`
ExtraFilters(mf, extra_filters) ==
    IF extra_filters # EmptyDict THEN DictUpdate(mf, extra_filters) ELSE mf

\* match_filters as retrieve builds it
MatchFilters(equipment_id, tenant, extra_filters) ==
    ExtraFilters(
        TenantFilter(
            EquipmentFilter("is_disabled" :> Ne(TRUE), equipment_id), tenant),
        extra_filters)

\* Ranked in the order of insertion, whatever the score
RECURSIVE Ranked_byId(_, _)
Ranked_byId(S, qv) ==
    IF S = {} THEN <<>>
    ELSE LET top == CHOOSE c \in S : \A d \in S :
                        c.chunk_id[1] <= d.chunk_id[1]
         IN  <<top>> \o Ranked_byId(S \ {top}, qv)

\* the stored chunks by descending searchScore (ties by chunk_id)
RECURSIVE Ranked(_, _)
Ranked(S, qv) ==
    IF S = {} THEN <<>>
    ELSE LET top == CHOOSE c \in S : \A d \in S :
                        \/ SearchScore(qv, c) > SearchScore(qv, d)
                        \/ /\ SearchScore(qv, c) = SearchScore(qv, d)
                           /\ c.chunk_id[1] <= d.chunk_id[1]
         IN  <<top>> \o Ranked(S \ {top}, qv)

Head_n(sq, n) == SubSeq(sq, 1, IF Len(sq) <= n THEN Len(sq) ELSE n)

\* the aggregation pipeline: $search knnBeta k = search_k, $match, $project
\* (with the searchScore), $limit k
Pipeline(store, qv, k, match_filters) ==
    LET neighbours == Head_n(Ranked(store, qv), SearchK(k))
        matched == SelectSeq(neighbours, LAMBDA c : Matches(c, match_filters))
        limited == Head_n(matched, k)
    IN  [i \in DOMAIN limited |->
            [chunk_id |-> limited[i].chunk_id,
             document_id |-> limited[i].document_id,
             file_name |-> limited[i].file_name,
             text |-> limited[i].text,
             chunk_index |-> limited[i].chunk_index,
             equipment_id |-> limited[i].equipment_id,
             tenant_id |-> limited[i].tenant_id,
             score |-> SearchScore(qv, limited[i])]]

ChunkContent(res) ==
    [text |-> res.text, file_name |-> res.file_name, score |-> res.score]

ChunkMetadata(res) ==
    [chunk_id |-> res.chunk_id,
     document_id |-> StrOfObjectId(res.document_id),
     equipment_id |-> StrOfObjectId(res.equipment_id),
     tenant_id |-> res.tenant_id, chunk_index |-> res.chunk_index,
     score |-> res.score, file_name |-> res.file_name]

\* RetrievalResult(data=chunk_data, metadata=RetrievalMetadata(...)) for the
\* projected records `results`
RetrievalResult(results, query, k, equipment_id, tenant) ==
    [state |-> "returned", search_k |-> SearchK(k),
     data |-> [i \in DOMAIN results |-> ChunkContent(results[i])],
     metadata |->
        [query |-> query, k |-> k, chunks_retrieved |-> Len(results),
         equipment_id |-> equipment_id, tenant_id |-> tenant,
         chunks |-> [i \in DOMAIN results |-> ChunkMetadata(results[i])]]]

\* Retrieve that swallows a failure of the result shaping and returns the
\* chunks shaped before it (here: none)
Retrieve_partial(store, query, k, equipment_id, tenant, extra_filters, search_ok, shape_ok) ==
    IF IsBlank(query)
    THEN [state |-> "raised", error |-> "ValueError", search_k |-> 0]
    ELSE IF ~search_ok
    THEN [state |-> "raised", error |-> "OperationFailure",
          search_k |-> SearchK(k)]
    ELSE IF ~shape_ok
    THEN RetrievalResult(<<>>, query, k, equipment_id, tenant)
    ELSE RetrievalResult(
             Pipeline(store, EmbedText(query), k,
                      MatchFilters(equipment_id, tenant, extra_filters)),
             query, k, equipment_id, tenant)

\* retrieve(query, k, equipment_id, tenant_id, extra_filters) over the chunk
\* collection `store`: the RetrievalResult, or the exception it re-raises
\* (embed_text raises on a blank query; search_ok is the storage's answer;
\* shape_ok is whether every result passes the ChunkContent / ChunkMetadata
\* models). search_k is the knnBeta k of the search that was issued, 0 when
\* none was.
Retrieve(store, query, k, equipment_id, tenant, extra_filters, search_ok, shape_ok) ==
    IF IsBlank(query)
    THEN [state |-> "raised", error |-> "ValueError", search_k |-> 0]
    ELSE IF ~search_ok
    THEN [state |-> "raised", error |-> "OperationFailure",
          search_k |-> SearchK(k)]
    ELSE IF ~shape_ok
    THEN [state |-> "raised", error |-> "ValidationError",
          search_k |-> SearchK(k)]
    ELSE RetrievalResult(
             Pipeline(store, EmbedText(query), k,
                      MatchFilters(equipment_id, tenant, extra_filters)),
             query, k, equipment_id, tenant)

\* the extra_filters a caller may pass
ExtraFilterSets ==
    {EmptyDict,
     "is_disabled" :> Eq(TRUE),
     "tenant_id" :> Eq("t2"),
     "equipment_id" :> Eq(ObjectId("e2")),
     "file_name" :> Eq(1)}

Queries == {"", "alpha"}

Ks == {1, 5, 6}

\* One retrieve call, from its first line to its return or raise.
RetrieveCall(query, k, equipment_id, tenant, extra_filters) ==
    /\ rq.state = "none"
    /\ \E search_ok \in BOOLEAN : \E shape_ok \in BOOLEAN :
        rq' = [call |-> [query |-> query, k |-> k,
                         equipment_id |-> equipment_id, tenant_id |-> tenant,
                         extra_filters |-> extra_filters]]
              @@ Retrieve(chunks, query, k, equipment_id, tenant,
                          extra_filters, search_ok, shape_ok)
    /\ UNCHANGED <<dbvars, upvars, api, cr, tool, convars>>

\* what a stored chunk can look like to retrieval: n makes it unique
StoredChunk(n, a) ==
    [chunk_id |-> <<n, 0>>, document_id |-> ObjectId(n),
     equipment_id |-> ObjectId(a.equipment_id), tenant_id |-> a.tenant_id,
     file_name |-> n, chunk_index |-> 0, text |-> a.text,
     is_disabled |-> a.is_disabled]

ChunkAttrs ==
    [equipment_id : {"e1", "e2"}, tenant_id : {"t1", "t2"},
     text : {"alpha", "beta"}, is_disabled : BOOLEAN]

\* every content of the chunk collection of at most MaxStore chunks
Stores ==
    UNION {{{StoredChunk(n, a[n]) : n \in 1..m} : a \in [1..m -> ChunkAttrs]}
           : m \in 0..MaxStore}

RetrieveInit ==
    /\ equipment = Equipment0
    /\ documents = {}
    /\ chunks \in Stores
    /\ nextId = 1
    /\ tmpfs = {}
    /\ started = 0
    /\ pc = "idle"
    /\ req = [equipment_id |-> "", nfiles |-> 0]
    /\ tenant_id = ""
    /\ fileIdx = 0
    /\ created_docs = <<>>
    /\ response = NoResponse
    /\ f = FileLocals0
    /\ g = FreshGhost({}, {})
    /\ rq = NoCall
    /\ api = NoApi
    /\ cr = [i \in 1..MaxCreates |-> NoCreate]
    /\ tool = NoTool
    /\ rng = NpFresh
    /\ calls = [s \in Sessions |-> NoSession]
    /\ limiter = Limiter0

RetrieveNext ==
    \E query \in Queries : \E k \in Ks :
    \E equipment_id \in {"", "e1", "bad"} : \E tenant \in {"", "t1"} :
    \E extra_filters \in ExtraFilterSets :
        RetrieveCall(query, k, equipment_id, tenant, extra_filters)

RetrieveSpec == RetrieveInit /\ [][RetrieveNext]_vars

----------------------------------------------------------------------------
(* The equipment endpoints: get_one_equipment, delete_equipment,
   list_equipment_documents *)

\* HTTPException(status_code, detail) and the success bodies
ApiResponse(status, body) == [status |-> status, body |-> body]

\* the application's generic exception handler: 500 with a trace id
InternalError == ApiResponse(500, [error |-> "Internal server error"])

NotFound == ApiResponse(404, [detail |-> "Equipment not found"])

\* BadRequest as the framework's own validation error would answer
BadRequest_unprocessable == ApiResponse(422, [detail |-> "value is not valid"])

BadRequest == ApiResponse(400, [detail |-> "Invalid equipment_id format"])

NoDeleted == [equipment |-> 0, documents |-> 0, chunks |-> 0]

\* a request for endpoint op on equipment_id eid has arrived; the ghost
\* fields keep the collections as they were at that moment
ApiCall(op, eid, at) ==
    [op |-> op, pc |-> at, equipment_id |-> eid,
     response |-> ApiResponse(0, <<>>), deleted |-> NoDeleted, fault |-> FALSE,
     equipment0 |-> equipment, docs0 |-> documents, chunks0 |-> chunks]

ApiIdle == api.pc = "none"

Answer(resp) == [api EXCEPT !.pc = "done", !.response = resp]

\* StorageFault with the exception swallowed and the counts returned
StorageFault_ignored ==
    [Answer(ApiResponse(200,
        [equipment_id |-> api.equipment_id, equipment_deleted |-> 0,
         documents_deleted |-> api.deleted.documents,
         chunks_deleted |-> api.deleted.chunks]))
       EXCEPT !.fault = TRUE]

\* a storage call of the handler raises: nothing catches it, the generic
\* handler answers
StorageFault == [Answer(InternalError) EXCEPT !.fault = TRUE]

\* ChunksOfEquipment that takes the disabled chunks only
ChunksOfEquipment_disabledOnly(oid) ==
    {c \in chunks : c.equipment_id = oid /\ c.is_disabled}

\* the filter {"equipment_id": equipment_obj_id} of delete_many on chunks
ChunksOfEquipment(oid) == {c \in chunks : c.equipment_id = oid}

\* the same filter on documents_metadata
DocumentsOfEquipment(oid) == {d \in documents : d.equipment_id = oid}

\* db.equipment.find_one({"_id": oid})
FindOneEquipment(oid) == {e \in equipment : e._id = oid}

\* datetime.isoformat()
IsoFormat(t) == [iso |-> t]

\* GET /equipment/{equipment_id}: ObjectId(equipment_id) is evaluated with
\* no try around it, so a malformed id ends in the generic handler.
GetOneEquipment(eid) ==
    /\ ApiIdle
    /\ \E ok \in BOOLEAN :
        LET found == IF ValidObjectId(eid) THEN FindOneEquipment(ObjectId(eid))
                     ELSE {}
            resp == IF ~ValidObjectId(eid) \/ ~ok THEN InternalError
                    ELSE IF found = {} THEN NotFound
                    ELSE LET e == CHOOSE x \in found : TRUE
                         IN  ApiResponse(200,
                                [e EXCEPT !._id = StrOfObjectId(e._id)])
        IN  api' = [ApiCall("get_one", eid, "done")
                      EXCEPT !.response = resp,
                             !.fault = ValidObjectId(eid) /\ ~ok]
    /\ UNCHANGED <<dbvars, upvars, rq, cr, tool, convars>>

\* DELETE /equipment/{equipment_id} arrives.
DeleteRequest(eid) ==
    /\ ApiIdle
    /\ api' = ApiCall("delete", eid, "find")
    /\ UNCHANGED <<dbvars, upvars, rq, cr, tool, convars>>

\* try: ObjectId(equipment_id) except: 400; then find_one, 404 when absent
DeleteFind ==
    /\ api.op = "delete" /\ api.pc = "find"
    /\ \E ok \in BOOLEAN :
        api' = IF ~ValidObjectId(api.equipment_id) THEN Answer(BadRequest)
               ELSE IF ~ok THEN StorageFault
               ELSE IF FindOneEquipment(ObjectId(api.equipment_id)) = {}
               THEN Answer(NotFound)
               ELSE [api EXCEPT !.pc = "delete_chunks"]
    /\ UNCHANGED <<dbvars, upvars, rq, cr, tool, convars>>

\* chunks_result = await db[DOCUMENT_CHUNKS_COLLECTION].delete_many(
\*     {"equipment_id": equipment_obj_id})
DeleteChunks ==
    /\ api.op = "delete" /\ api.pc = "delete_chunks"
    /\ \E ok \in BOOLEAN :
        LET hit == ChunksOfEquipment(ObjectId(api.equipment_id))
        IN  IF ok
            THEN /\ chunks' = chunks \ hit
                 /\ api' = [api EXCEPT !.pc = "delete_documents",
                                       !.deleted.chunks = Cardinality(hit)]
            ELSE /\ chunks' = chunks
                 /\ api' = StorageFault
    /\ UNCHANGED <<equipment, documents, nextId, tmpfs, upvars, rq, cr, tool, convars>>

\* docs_result = await db.documents_metadata.delete_many(
\*     {"equipment_id": equipment_obj_id})
DeleteDocuments ==
    /\ api.op = "delete" /\ api.pc = "delete_documents"
    /\ \E ok \in BOOLEAN :
        LET hit == DocumentsOfEquipment(ObjectId(api.equipment_id))
        IN  IF ok
            THEN /\ documents' = documents \ hit
                 /\ api' = [api EXCEPT !.pc = "delete_equipment",
                                       !.deleted.documents = Cardinality(hit)]
            ELSE /\ documents' = documents
                 /\ api' = StorageFault
    /\ UNCHANGED <<equipment, chunks, nextId, tmpfs, upvars, rq, cr, tool, convars>>

\* equipment_result = await db.equipment.delete_one({"_id": ...}) and the
\* return of the counts
DeleteEquipment ==
    /\ api.op = "delete" /\ api.pc = "delete_equipment"
    /\ \E ok \in BOOLEAN :
        LET hit == FindOneEquipment(ObjectId(api.equipment_id))
            n == Cardinality(hit)
        IN  IF ok
            THEN /\ equipment' = equipment \ hit
                 /\ api' = [Answer(ApiResponse(200,
                               [equipment_id |-> api.equipment_id,
                                equipment_deleted |-> n,
                                documents_deleted |-> api.deleted.documents,
                                chunks_deleted |-> api.deleted.chunks]))
                              EXCEPT !.deleted.equipment = n]
            ELSE /\ equipment' = equipment
                 /\ api' = StorageFault
    /\ UNCHANGED <<documents, chunks, nextId, tmpfs, upvars, rq, cr, tool, convars>>

\* cursor.sort("created_at", -1).to_list(): the records by descending
\* created_at, records of equal created_at in whatever order storage yields
SortedNewestFirst(S) ==
    {sq \in [1..Cardinality(S) -> S] :
        /\ \A i \in DOMAIN sq : \A j \in DOMAIN sq :
              i < j => (sq[i] # sq[j] /\ sq[i].created_at >= sq[j].created_at)}

\* the normalisation of one document for the JSON response
SerializeDocument(d) ==
    [d EXCEPT !._id = StrOfObjectId(@), !.equipment_id = StrOfObjectId(@),
              !.created_at = IsoFormat(@)]

\* GET /equipment/{equipment_id}/documents. Two handlers are registered for
\* this route; routes are matched in the order of registration, so the first
\* one (the one that sorts and does not look at is_disabled) answers and the
\* second is never called.
ListEquipmentDocuments(eid) ==
    /\ ApiIdle
    /\ \E ok \in BOOLEAN :
        LET oid == ObjectId(eid)
            hit == DocumentsOfEquipment(oid)
        IN  \E docs \in SortedNewestFirst(hit) :
            LET resp ==
                  IF ~ValidObjectId(eid) THEN BadRequest
                  ELSE IF ~ok THEN InternalError
                  ELSE IF FindOneEquipment(oid) = {} THEN NotFound
                  ELSE ApiResponse(200,
                         [documents |-> [i \in DOMAIN docs |->
                                            SerializeDocument(docs[i])],
                          count |-> Len(docs)])
            IN  api' = [ApiCall("list_documents", eid, "done")
                          EXCEPT !.response = resp,
                                 !.fault = ValidObjectId(eid) /\ ~ok]
    /\ UNCHANGED <<dbvars, upvars, rq, cr, tool, convars>>

\* A retrieve call made after a delete_equipment request was answered.
RetrieveAfterDelete(eid, tenant) ==
    /\ api.op = "delete" /\ api.pc = "done"
    /\ RetrieveCall("alpha", 5, eid, tenant, EmptyDict)

\* The response has been sent; nothing of the request is kept.
ApiReturn ==
    /\ api.pc = "done"
    /\ api' = NoApi
    /\ rq' = NoCall
    /\ UNCHANGED <<dbvars, upvars, cr, tool, convars>>

\* the created_at values of stored documents
Times == {1, 2}

DocAttrs ==
    [equipment_id : {"e1", "e2"}, created_at : Times, is_disabled : BOOLEAN]

EquipmentTenant(eid) ==
    TenantOf(CHOOSE e \in Equipment0 : e._id = ObjectId(eid))

\* a Document as a finished upload left it (n is its id and file), with its
\* created_at and the soft-delete flag a later disable may have set
StoredDocument(n, a) ==
    [created_at |-> a.created_at, is_disabled |-> a.is_disabled]
    @@ CompletedUpdate([DocDict(a.equipment_id,
                                EquipmentTenant(a.equipment_id), n)
                            EXCEPT !._id = ObjectId(n)])

\* and its Chunks
StoredChunksOf(n, a) ==
    {ChunkDoc(ObjectId(n), a.equipment_id, EquipmentTenant(a.equipment_id),
              n, i, "alpha") : i \in 0..(MaxChunks - 1)}

ApiInit ==
    /\ equipment = Equipment0
    /\ \E m \in 0..MaxStore : \E a \in [1..m -> DocAttrs] :
          /\ documents = {StoredDocument(n, a[n]) : n \in 1..m}
          /\ chunks = UNION {StoredChunksOf(n, a[n]) : n \in 1..m}
          /\ nextId = m + 1
    /\ tmpfs = {}
    /\ started = 0
    /\ pc = "idle"
    /\ req = [equipment_id |-> "", nfiles |-> 0]
    /\ tenant_id = ""
    /\ fileIdx = 0
    /\ created_docs = <<>>
    /\ response = NoResponse
    /\ f = FileLocals0
    /\ g = FreshGhost({}, {})
    /\ rq = NoCall
    /\ api = NoApi
    /\ cr = [i \in 1..MaxCreates |-> NoCreate]
    /\ tool = NoTool
    /\ rng = NpFresh
    /\ calls = [s \in Sessions |-> NoSession]
    /\ limiter = Limiter0

ApiNext ==
    \/ \E eid \in IdStrings \ {""} : GetOneEquipment(eid)
    \/ \E eid \in IdStrings \ {""} : ListEquipmentDocuments(eid)
    \/ \E eid \in IdStrings \ {""} : DeleteRequest(eid)
    \/ DeleteFind
    \/ DeleteChunks
    \/ DeleteDocuments
    \/ DeleteEquipment
    \/ \E eid \in {"e1", "e2"} : \E tenant \in {"", "t1"} :
          RetrieveAfterDelete(eid, tenant)
    \/ ApiReturn

ApiSpec == ApiInit /\ [][ApiNext]_vars

----------------------------------------------------------------------------
(* create_equipment, POST /equipment/ : requests served concurrently, each
   one stepped at its two storage calls *)

EquipmentNames == {"pump", "fan"}

CreateTenants == {"t1", "t2"}

\* ExistingEquipment that looks at the name alone
ExistingEquipment_anyTenant(name, tenant) ==
    {e \in equipment : e.name = name}

\* db.equipment.find_one({"name": equipment.name,
\*                        "tenant_id": equipment.tenant_id})
ExistingEquipment(name, tenant) ==
    {e \in equipment : e.name = name /\ e.tenant_id = tenant}

Conflict == ApiResponse(409, [detail |-> "Equipment with this name already exists"])

\* Request i arrives with its Equipment body.
CreateRequest(i, name, tenant) ==
    /\ cr[i].pc = "none"
    /\ cr' = [cr EXCEPT ![i] =
                 [pc |-> "find", name |-> name, tenant_id |-> tenant,
                  response |-> ApiResponse(0, <<>>), seen |-> {},
                  inserted |-> {}, fault |-> FALSE]]
    /\ UNCHANGED <<dbvars, upvars, rq, api, tool, convars>>

\* existing = await find_one(...); `if existing:` 409
CreateFind(i) ==
    /\ cr[i].pc = "find"
    /\ \E ok \in BOOLEAN :
        LET existing == ExistingEquipment(cr[i].name, cr[i].tenant_id)
        IN  cr' = [cr EXCEPT ![i] =
                     IF ~ok
                     THEN [@ EXCEPT !.pc = "done", !.response = InternalError,
                                    !.fault = TRUE]
                     ELSE IF existing # {}
                     THEN [@ EXCEPT !.pc = "done", !.response = Conflict,
                                    !.seen = equipment]
                     ELSE [@ EXCEPT !.pc = "insert", !.seen = equipment]]
    /\ UNCHANGED <<dbvars, upvars, rq, api, tool, convars>>

\* result = await db.equipment.insert_one(equipment_dict); the response is
\* the body with _id = str(result.inserted_id)
CreateInsert(i) ==
    /\ cr[i].pc = "insert"
    /\ \E ok \in BOOLEAN :
        IF ok
        THEN LET e == [_id |-> ObjectId(nextId), name |-> cr[i].name,
                       tenant_id |-> cr[i].tenant_id]
             IN  /\ equipment' = equipment \cup {e}
                 /\ nextId' = nextId + 1
                 /\ cr' = [cr EXCEPT ![i] =
                              [@ EXCEPT !.pc = "done", !.inserted = {e},
                                 !.response = ApiResponse(201,
                                    [e EXCEPT !._id = StrOfObjectId(@)])]]
        ELSE /\ cr' = [cr EXCEPT ![i] =
                          [@ EXCEPT !.pc = "done", !.response = InternalError,
                                    !.fault = TRUE]]
             /\ UNCHANGED <<equipment, nextId>>
    /\ UNCHANGED <<documents, chunks, tmpfs, upvars, rq, api, tool, convars>>

CreateNext ==
    \/ \E i \in 1..MaxCreates : \E name \in EquipmentNames :
       \E tenant \in CreateTenants : CreateRequest(i, name, tenant)
    \/ \E i \in 1..MaxCreates : CreateFind(i)
    \/ \E i \in 1..MaxCreates : CreateInsert(i)

CreateSpec == Init /\ [][CreateNext]_vars

----------------------------------------------------------------------------
(* Uploads and equipment deletions over the same collections.  StoreSpec runs
   the requests one after the other (every storage step of each is a state);
   RaceSpec lets a delete_equipment request and an upload run at the same
   time: each handler gives way at its awaits, which are its storage calls. *)

\* an upload of n files arrives while no deletion is being served
StoreUpload(eid, n) ==
    /\ ApiIdle
    /\ started + n <= MaxUploads
    /\ Request(eid, n)

\* a deletion arrives while no upload is being served
StoreDelete(eid) ==
    /\ pc = "idle"
    /\ DeleteRequest(eid)

StoreNext ==
    \/ \E eid \in {"e1", "e2"} : \E n \in 1..MaxUploads : StoreUpload(eid, n)
    \/ \E eid \in {"e1", "e2"} : StoreDelete(eid)
    \/ FindEquipment
    \/ ReadFile
    \/ CheckSupported
    \/ WriteTemp
    \/ ExtractText
    \/ CheckText
    \/ SplitChunks
    \/ InsertDoc
    \/ MarkFailed
    \/ InsertChunks
    \/ MarkCompleted
    \/ Finally
    \/ NextFile
    \/ Return
    \/ DeleteFind
    \/ DeleteChunks
    \/ DeleteDocuments
    \/ DeleteEquipment
    \/ ApiReturn

StoreSpec == Init /\ [][StoreNext]_vars

\* an upload arrives, whatever the deletion is doing
RaceUpload(eid, n) ==
    /\ started + n <= MaxUploads
    /\ Request(eid, n)

RaceNext ==
    \/ \E eid \in {"e1", "e2"} : \E n \in 1..MaxUploads : RaceUpload(eid, n)
    \/ \E eid \in {"e1", "e2"} : DeleteRequest(eid)
    \/ FindEquipment
    \/ ReadFile
    \/ CheckSupported
    \/ WriteTemp
    \/ ExtractText
    \/ CheckText
    \/ SplitChunks
    \/ InsertDoc
    \/ MarkFailed
    \/ InsertChunks
    \/ MarkCompleted
    \/ Finally
    \/ NextFile
    \/ Return
    \/ DeleteFind
    \/ DeleteChunks
    \/ DeleteDocuments
    \/ DeleteEquipment
    \/ ApiReturn

RaceSpec == Init /\ [][RaceNext]_vars

----------------------------------------------------------------------------
(* Concurrent retrieve calls.  retrieve runs without giving way from its
   first line through embed_text to `await cursor.to_list(length=k)`, and
   from the answer of that await to its return: those are the two steps of a
   call, and the steps of different sessions interleave. *)

\* int(hashlib.sha256(text.encode()).hexdigest()[:8], 16)
Sha256Seed(text) == IF text = "alpha" THEN 1 ELSE 2

\* NpSeed that leaves the generator as the previous caller left it
NpSeed_keep(state, s) == state

\* np.random.seed(s): the generator restarts the stream of seed s
NpSeed(state, s) == [seed |-> s, drawn |-> 0]

\* np.random.normal(0, 1, dim) / norm: the vector is a function of the
\* generator's state (which stream, how far into it); its direction is what
\* the model keeps, and the normalisation does not change a direction
NpNormal(state) == state.seed + 3 * state.drawn

\* the generator after a draw
NpAdvance(state) == [state EXCEPT !.drawn = @ + 1]

\* embed_text(text) on the process-wide generator, for a text that is not
\* blank: the vector, and the state the generator is left in
EmbedTextOn(state, text) ==
    LET seeded == NpSeed(state, Sha256Seed(text))
    IN  [vector |-> NpNormal(seeded), state |-> NpAdvance(seeded)]

\* Session s calls retrieve: everything up to the await of the search. A
\* blank query raises in embed_text before the generator is touched.
SessionCall(s, query, k, equipment_id) ==
    /\ calls[s].pc = "none"
    /\ LET call == [query |-> query, k |-> k, equipment_id |-> equipment_id,
                    tenant_id |-> ""]
       IN  IF IsBlank(query)
           THEN /\ calls' = [calls EXCEPT ![s] =
                      [pc |-> "done", call |-> call, query_embedding |-> 0,
                       search_ok |-> TRUE,
                       result |-> [state |-> "raised", error |-> "ValueError",
                                   search_k |-> 0]]]
                /\ rng' = rng
           ELSE LET e == EmbedTextOn(rng, query)
                IN  /\ calls' = [calls EXCEPT ![s] =
                          [pc |-> "search", call |-> call,
                           query_embedding |-> e.vector]]
                    /\ rng' = e.state
    /\ UNCHANGED <<dbvars, upvars, rq, api, cr, tool, limiter>>

\* The search of session s answers: the results are shaped and returned, or
\* the failure of the search is re-raised.
SessionSearch(s) ==
    /\ calls[s].pc = "search"
    /\ \E search_ok \in BOOLEAN :
        LET c == calls[s].call
            result ==
              IF ~search_ok
              THEN [state |-> "raised", error |-> "OperationFailure",
                    search_k |-> SearchK(c.k)]
              ELSE RetrievalResult(
                       Pipeline(chunks, calls[s].query_embedding, c.k,
                                MatchFilters(c.equipment_id, c.tenant_id,
                                             EmptyDict)),
                       c.query, c.k, c.equipment_id, c.tenant_id)
        IN  calls' = [calls EXCEPT ![s] =
                        [pc |-> "done", call |-> c,
                         query_embedding |-> calls[s].query_embedding,
                         search_ok |-> search_ok, result |-> result]]
    /\ UNCHANGED <<dbvars, upvars, rq, api, cr, tool, rng, limiter>>

\* The caller of session s has its answer.
SessionReturn(s) ==
    /\ calls[s].pc = "done"
    /\ calls' = [calls EXCEPT ![s] = NoSession]
    /\ UNCHANGED <<dbvars, upvars, rq, api, cr, tool, rng, limiter>>

\* the chunk collections the sessions search: enabled chunks of tenant t1
SessionChunkAttrs ==
    [equipment_id : {"e1", "e2"}, tenant_id : {"t1"},
     text : {"alpha", "beta"}, is_disabled : {FALSE}]

SessionStores ==
    UNION {{{StoredChunk(n, a[n]) : n \in 1..m} : a \in [1..m -> SessionChunkAttrs]}
           : m \in 0..MaxStore}

SessionsInit ==
    /\ equipment = Equipment0
    /\ documents = {}
    /\ chunks \in SessionStores
    /\ nextId = 1
    /\ tmpfs = {}
    /\ started = 0
    /\ pc = "idle"
    /\ req = [equipment_id |-> "", nfiles |-> 0]
    /\ tenant_id = ""
    /\ fileIdx = 0
    /\ created_docs = <<>>
    /\ response = NoResponse
    /\ f = FileLocals0
    /\ g = FreshGhost({}, {})
    /\ rq = NoCall
    /\ api = NoApi
    /\ cr = [i \in 1..MaxCreates |-> NoCreate]
    /\ tool = NoTool
    /\ rng = NpFresh
    /\ calls = [s \in Sessions |-> NoSession]
    /\ limiter = Limiter0

SessionsNext ==
    \/ \E s \in Sessions : \E query \in {"", "alpha", "beta"} :
       \E k \in {1, 5} : \E equipment_id \in {"", "e1"} :
          SessionCall(s, query, k, equipment_id)
    \/ \E s \in Sessions : SessionSearch(s)
    \/ \E s \in Sessions : SessionReturn(s)

SessionsSpec == SessionsInit /\ [][SessionsNext]_vars

----------------------------------------------------------------------------
(* The rate limit of the upload endpoint: @limiter.limit("10/minute") with
   key_func get_client_identifier, slowapi's default strategy (fixed window)
   and its memory:// storage.  The clock counts half minutes. *)

\* "10/minute": the amount
RateLimit == 10

\* "10/minute": the length of the window, in ticks of the clock
Minute == 2

\* get_client_identifier: the first element of X-Forwarded-For when the
\* header is there (forwarded is the header split at ","), otherwise the
\* remote address
GetClientIdentifier(forwarded, remote) ==
    IF forwarded # <<>> THEN forwarded[1] ELSE remote

\* the storage's incr(key, expiry): a key that is absent or has expired
\* starts again at 1 and expires one window after this hit; a live key is
\* counted up and keeps its expiry
Hit(entry, now) ==
    IF entry.count > 0 /\ entry.expires > now
    THEN [entry EXCEPT !.count = @ + 1]
    ELSE [count |-> 1, expires |-> now + Minute]

\* Admits that lets every request through
Admits_always(count) == TRUE

\* the limiter's hit(): the request is admitted while the count, this request
\* included, is within the amount
Admits(count) == count <= RateLimit

\* the requests the limiter has admitted for key c in the window that is
\* live at `now`
InLiveWindow(c) ==
    IF limiter.storage[c].count > 0 /\ limiter.storage[c].expires > limiter.now
    THEN limiter.in_window[c] ELSE 0

\* An upload request arrives: the decorator checks the limit before the
\* handler runs; RateLimitExceeded is answered 429 by the registered handler,
\* an admitted request goes on to upload_equipment_documents.
UploadArrives(forwarded, remote) ==
    LET c == GetClientIdentifier(forwarded, remote)
        entry == Hit(limiter.storage[c], limiter.now)
        ok == Admits(entry.count)
    IN  /\ entry.count <= RateLimit + 1
        /\ limiter' =
             [limiter EXCEPT
                !.storage[c] = entry,
                !.admitted_now[c] = IF ok THEN @ + 1 ELSE @,
                !.in_window[c] = IF ok THEN InLiveWindow(c) + 1
                                 ELSE InLiveWindow(c),
                !.seen = @ \cup {c},
                !.last = [client |-> c, status |-> IF ok THEN 201 ELSE 429,
                          first |-> c \notin limiter.seen,
                          before |-> InLiveWindow(c)]]
        /\ UNCHANGED <<dbvars, upvars, rq, api, cr, tool, rng, calls>>

\* Half a minute passes.
Tick ==
    /\ limiter.now < MaxTime
    /\ limiter' = [limiter EXCEPT !.now = @ + 1,
                                  !.admitted_prev = limiter.admitted_now,
                                  !.admitted_now = [c \in Clients |-> 0]]
    /\ UNCHANGED <<dbvars, upvars, rq, api, cr, tool, rng, calls>>

RateNext ==
    \/ \E forwarded \in {<<>>, <<"c2", "c1">>} : UploadArrives(forwarded, "c1")
    \/ Tick

RateSpec == Init /\ [][RateNext]_vars

----------------------------------------------------------------------------
(* run_bot and its search_knowledge_base tool *)

\* run_bot: tenant_id = body.get("tenant_id", settings.TENANT_ID), replaced
\* by the equipment's tenant when the body names an equipment and no tenant
\* (a failing lookup is logged and ignored)
SessionTenant(eid, body_tenant) ==
    IF body_tenant # "absent" THEN body_tenant
    ELSE LET found == {e \in equipment : ValidObjectId(eid)
                                         /\ e._id = ObjectId(eid)}
         IN  IF eid # "" /\ found # {}
                /\ (CHOOSE e \in found : TRUE).tenant_id # ""
             THEN (CHOOSE e \in found : TRUE).tenant_id
             ELSE TENANT_ID

\* {"results": [{"id": meta.chunk_id, "content": chunk.text} ...]}
CleanData(result) ==
    [results |-> [i \in DOMAIN result.data |->
                     [id |-> result.metadata.chunks[i].chunk_id,
                      content |-> result.data[i].text]]]

\* KnowledgeEvent that lists no chunk
KnowledgeEvent_empty(result) ==
    [type |-> "search_knowledge_base", chunks |-> <<>>]

\* the RTVIServerMessageFrame data: type and chunks (id, text, metadata)
KnowledgeEvent(result) ==
    [type |-> "search_knowledge_base",
     chunks |-> [i \in DOMAIN result.data |->
                    [id |-> result.metadata.chunks[i].chunk_id,
                     text |-> result.data[i].text,
                     metadata |-> result.metadata.chunks[i]]]]

EmptyResults == [results |-> <<>>]

\* ExceptDelivers that only logs
ExceptDelivers_nothing(delivered) == delivered

\* `except Exception as e: logger.error(...);
\* await params.result_callback({"results": []})`
ExceptDelivers(delivered) == Append(delivered, EmptyResults)

\* where control goes when a statement of the handler raises: the whole body
\* is inside the try, so to the except clause
OnRaise(where) == "except"

\* A voice session starts for the equipment and tenant of the request body.
RunBot(eid, body_tenant) ==
    /\ tool.pc = "none"
    /\ tool' = [pc |-> "idle", equipment_id |-> eid,
                tenant_id |-> SessionTenant(eid, body_tenant),
                query |-> "", delivered |-> <<>>, events |-> <<>>,
                emit_failed |-> FALSE]
    /\ UNCHANGED <<dbvars, upvars, rq, api, cr, convars>>

\* The LLM calls the tool: query = params.arguments.get("query", "")
ToolInvoke(query) ==
    /\ tool.pc = "idle"
    /\ tool' = [tool EXCEPT !.pc = "retrieve", !.query = query,
                            !.delivered = <<>>, !.events = <<>>,
                            !.emit_failed = FALSE]
    /\ rq' = NoCall
    /\ UNCHANGED <<dbvars, upvars, api, cr, convars>>

\* retrieval_result = await rag_service.retrieve(query=query, k=5,
\* equipment_id=equipment_id, tenant_id=tenant_id)
ToolRetrieve ==
    /\ tool.pc = "retrieve"
    /\ \E search_ok \in BOOLEAN : \E shape_ok \in BOOLEAN :
        LET r == Retrieve(chunks, tool.query, 5, tool.equipment_id,
                          tool.tenant_id, EmptyDict, search_ok, shape_ok)
        IN  /\ rq' = [call |-> [query |-> tool.query, k |-> 5,
                                equipment_id |-> tool.equipment_id,
                                tenant_id |-> tool.tenant_id,
                                extra_filters |-> EmptyDict]] @@ r
            /\ tool' = [tool EXCEPT !.pc = IF r.state = "returned"
                                           THEN "deliver"
                                           ELSE OnRaise("retrieve")]
    /\ UNCHANGED <<dbvars, upvars, api, cr, convars>>

\* await params.result_callback({"results": clean_data})
ToolDeliver ==
    /\ tool.pc = "deliver"
    /\ tool' = [tool EXCEPT !.pc = "emit",
                            !.delivered = Append(@, CleanData(rq))]
    /\ UNCHANGED <<dbvars, upvars, rq, api, cr, convars>>

\* await rtvi.push_frame(RTVIServerMessageFrame(data=...)): the frame goes
\* out, or the push raises
ToolEmit ==
    /\ tool.pc = "emit"
    /\ \E ok \in BOOLEAN :
        tool' = IF ok
                THEN [tool EXCEPT !.pc = "done",
                                  !.events = Append(@, KnowledgeEvent(rq))]
                ELSE [tool EXCEPT !.pc = OnRaise("emit"),
                                  !.emit_failed = TRUE]
    /\ UNCHANGED <<dbvars, upvars, rq, api, cr, convars>>

\* the except clause
ToolExcept ==
    /\ tool.pc = "except"
    /\ tool' = [tool EXCEPT !.pc = "done",
                            !.delivered = ExceptDelivers(@)]
    /\ UNCHANGED <<dbvars, upvars, rq, api, cr, convars>>

\* The handler has returned; the session waits for the next tool call.
ToolReturn ==
    /\ tool.pc = "done"
    /\ tool' = [tool EXCEPT !.pc = "idle"]
    /\ UNCHANGED <<dbvars, upvars, rq, api, cr, convars>>

SessionEquipment == {"", "e1", "e2", "bad"}

BodyTenants == {"absent", "t1"}

ToolNext ==
    \/ \E eid \in SessionEquipment : \E bt \in BodyTenants : RunBot(eid, bt)
    \/ \E query \in Queries : ToolInvoke(query)
    \/ ToolRetrieve
    \/ ToolDeliver
    \/ ToolEmit
    \/ ToolExcept
    \/ ToolReturn

ToolSpec == RetrieveInit /\ [][ToolNext]_vars

----------------------------------------------------------------------------
(* Properties of the ingestion pipeline *)

DocIds(docs) == {d._id : d \in docs}

ChunksOf(id) == {c \in chunks : c.document_id = id}

\* the Documents and Chunks written since the current file began
NewDocs == {d \in documents : d._id \notin DocIds(g.docs0)}

NewChunks == chunks \ g.chunks0

\* the current file went through the splitter and got at least one chunk
FileSplit == pc = "file_end" /\ Len(f.chunks) >= 1

AllEmbeddable == \A i \in DOMAIN f.chunks : ~EmbedRaises(f.chunks[i])

NoneEmbeddable == \A i \in DOMAIN f.chunks : EmbedRaises(f.chunks[i])

\* C1 (state part): a completed Document has at least one Chunk, a failed
\* Document has none.
C1_StatusMatchesChunks ==
    \A d \in documents :
        /\ d.embedding_status \in {"processing", "completed", "failed"}
        /\ d.embedding_status = "completed" => ChunksOf(d._id) # {}
        /\ d.embedding_status = "failed" => ChunksOf(d._id) = {}

\* C1 (step part): a Document enters the collection as "processing" with no
\* Chunk of its own, and its status only moves processing -> completed or
\* processing -> failed.
C1_Step ==
    /\ \A d \in documents' :
          d._id \notin DocIds(documents) =>
              /\ d.embedding_status = "processing"
              /\ \A c \in chunks' : c.document_id # d._id
    /\ \A d \in documents : \A e \in documents' :
          (d._id = e._id /\ d.embedding_status # e.embedding_status) =>
              /\ d.embedding_status = "processing"
              /\ e.embedding_status \in {"completed", "failed"}

\* C1: Document lifecycle in upload_equipment_documents: a Document is
\* inserted as "processing" before any Chunk of it exists, its status only
\* moves processing -> completed or processing -> failed, and always a
\* completed Document has at least one Chunk and a failed one has none.
C1_DocumentLifecycle == [](C1_StatusMatchesChunks) /\ [][C1_Step]_vars

\* C1 witness: a failed Document (no Chunk) and a completed one (with
\* Chunks) stand side by side.
C1_Witness ==
    /\ \E d \in documents : d.embedding_status = "failed"
    /\ \E d \in documents :
          d.embedding_status = "completed" /\ Cardinality(ChunksOf(d._id)) >= 2

\* C5 (as claimed): after any upload, the chunk_index values of every
\* Document's Chunks are exactly 0..m-1.
C5_ContiguousIndices ==
    pc = "done" =>
        \A d \in documents :
            LET idx == {c.chunk_index : c \in ChunksOf(d._id)}
            IN  idx = 0..(Cardinality(idx) - 1)

\* C6 (as claimed): every document entry of the upload response carries the
\* embedding_status persisted for that Document when the request returns.
C6_ResponseHasFinalStatus ==
    (pc = "done" /\ response.status = 201) =>
        \A i \in DOMAIN response.documents :
            \E d \in documents :
                /\ StrOfObjectId(d._id) = response.documents[i]._id
                /\ d.embedding_status = response.documents[i].embedding_status

\* C7: a file split into N chunks that all embed (storage accepting every
\* write) leaves exactly one Document, completed, and exactly N Chunks of it
\* with chunk_index 0..N-1, the chunk at index i holding the i-th segment.
C7_AllChunksPersisted ==
    (FileSplit /\ AllEmbeddable /\ g.fault = "none") =>
        LET N == Len(f.chunks)
        IN  /\ Cardinality(NewDocs) = 1
            /\ \A d \in NewDocs :
                  /\ d.embedding_status = "completed"
                  /\ NewChunks = ChunksOf(d._id)
            /\ Cardinality(NewChunks) = N
            /\ {c.chunk_index : c \in NewChunks} = 0..(N - 1)
            /\ \A c \in NewChunks : c.text = f.chunks[c.chunk_index + 1]

\* C7 witness: the second file of a batch, two chunks, both embedded.
C7_Witness ==
    /\ FileSplit /\ AllEmbeddable /\ g.fault = "none"
    /\ Len(f.chunks) = 2 /\ fileIdx = 2

\* C8: a file whose every chunk fails embedding (storage accepting every
\* write) leaves exactly one Document, failed and with an error detail, no
\* Chunk of it, and insert_many was never called.
C8_AllChunksFail ==
    (FileSplit /\ NoneEmbeddable /\ g.fault = "none") =>
        /\ Cardinality(NewDocs) = 1
        /\ \A d \in NewDocs :
              /\ d.embedding_status = "failed"
              /\ d.embedding_error
              /\ ChunksOf(d._id) = {}
        /\ chunks = g.chunks0
        /\ ~g.insert_many_called

\* C8 witness: such a file, of two chunks, has ended.
C8_Witness ==
    FileSplit /\ NoneEmbeddable /\ g.fault = "none" /\ Len(f.chunks) = 2

\* the current file was skipped before the persist step
SkippedFile ==
    /\ pc = "file_end"
    /\ g.read_ok
    /\ \/ ~g.supported
       \/ g.extract \in {"ValueError", "FileNotFoundError", "Exception"}
       \/ g.extract = "ok" /\ IsBlank(f.extracted_text)

\* C9: a file skipped before the persist step (unsupported format,
\* extraction error, blank text) creates no Document and no Chunk and leaves
\* both collections as they were.
C9_SkipWritesNothing ==
    SkippedFile => (documents = g.docs0 /\ chunks = g.chunks0)

\* C9 witness: a file is skipped while records of an earlier file exist.
C9_Witness ==
    /\ SkippedFile
    /\ g.docs0 # {} /\ g.chunks0 # {}
    /\ g.extract = "ok" /\ f.extracted_text = " "

\* What one file, processed alone, writes: computed from the environment's
\* choices for that file only (gh) and its segments (cs).
AloneReachesPersist(fl, gh) ==
    /\ gh.read_ok /\ gh.supported /\ gh.tmp = "ok" /\ gh.extract = "ok"
    /\ ~IsBlank(fl.extracted_text)
    /\ fl.chunks # <<>>
    /\ gh.fault # "insert_one"

AloneSurvivors(fl) ==
    {i \in 0..(Len(fl.chunks) - 1) : ~EmbedRaises(fl.chunks[i + 1])}

AloneStatus(fl, gh) ==
    IF AloneSurvivors(fl) = {}
    THEN IF gh.fault = "update_failed" THEN "processing" ELSE "failed"
    ELSE IF gh.fault = "none" THEN "completed" ELSE "processing"

\* the survivors written: all of them, or the first gh.inserted of them when
\* the bulk insert broke off
AloneChunkIndices(fl, gh) ==
    LET sv == AloneSurvivors(fl)
    IN  IF gh.fault = "insert_many"
        THEN {i \in sv : Cardinality({j \in sv : j < i}) < gh.inserted}
        ELSE sv

\* the records the current file has written are those it writes alone
FileEffectIsAlone ==
    /\ g.docs0 \subseteq documents
    /\ g.chunks0 \subseteq chunks
    /\ IF AloneReachesPersist(f, g)
       THEN /\ Cardinality(NewDocs) = 1
            /\ \A d \in NewDocs :
                  /\ d.embedding_status = AloneStatus(f, g)
                  /\ d.equipment_id = ObjectId(req.equipment_id)
                  /\ d.tenant_id = tenant_id
                  /\ NewChunks = ChunksOf(d._id)
            /\ {<<c.chunk_index, c.text>> : c \in NewChunks}
                 = {<<i, f.chunks[i + 1]>> : i \in AloneChunkIndices(f, g)}
            /\ Cardinality(NewChunks) = Cardinality(AloneChunkIndices(f, g))
       ELSE NewDocs = {} /\ NewChunks = {}

\* C10 (as claimed): per-file isolation in a batch: however a file ends
\* (skipped, failed embedding, exception at any step), the loop goes on to
\* every later file, each file writes exactly the records it would write
\* alone and leaves the others' untouched, and the request answers 201
\* {documents, count}.
C10_PerFileIsolation ==
    /\ pc = "file_end" => (g.outcome # "pending" /\ FileEffectIsAlone)
    /\ (pc = "done" /\ fileIdx >= 1) =>
          /\ response.status = 201
          /\ fileIdx = req.nfiles
          /\ g.outcome # "pending"
          /\ response.count = Len(response.documents)

\* the current file got its Document inserted and its chunks embedded
FileEmbedded == pc = "file_end" /\ f.document_id # ObjectId(0)

\* C11: per-chunk isolation: a chunk whose embedding raises is dropped and
\* the chunks after it are still embedded: the list handed to the bulk insert
\* holds exactly the chunks whose embedding succeeded, in source order, each
\* with its own text, and (unless the bulk insert itself breaks off) the
\* Chunks persisted for the file are exactly that list.
C11_PerChunkIsolation ==
    FileEmbedded =>
        LET cd == f.chunk_documents
        IN  /\ {cd[i].chunk_index : i \in DOMAIN cd} = AloneSurvivors(f)
            /\ \A i \in DOMAIN cd : \A j \in DOMAIN cd :
                  i < j => cd[i].chunk_index < cd[j].chunk_index
            /\ \A i \in DOMAIN cd : cd[i].text = f.chunks[cd[i].chunk_index + 1]
            /\ g.fault # "insert_many" =>
                  NewChunks = {cd[i] : i \in DOMAIN cd}

\* C11 witness: the first chunk of a file failed embedding and the chunk
\* after it was embedded and persisted.
C11_Witness ==
    /\ FileEmbedded /\ g.fault = "none"
    /\ Len(f.chunks) >= 2
    /\ EmbedRaises(f.chunks[1]) /\ ~EmbedRaises(f.chunks[2])
    /\ \E c \in NewChunks : c.chunk_index = 1

\* C12 (as claimed): on every exit path of a file's processing, the
\* temporary file created for its extraction no longer exists when the
\* processing of that file ends.
C12_TempFileRemoved == pc = "file_end" => started \notin tmpfs

\* the Documents the current upload request has created: those of its files
RequestDocs ==
    {d \in documents : d.file_name > started - fileIdx /\ d.file_name <= started}

\* C30 (as claimed): when an upload request returns, no Document it created
\* is left with embedding_status "processing", also when persisting the chunks
\* or the final status update raised.
C30_NoDocumentLeftProcessing ==
    (pc = "done" /\ fileIdx >= 1) =>
        \A d \in RequestDocs : d.embedding_status # "processing"

----------------------------------------------------------------------------
(* Properties of retrieval *)

Returned == rq.state = "returned"

\* the stored records of the chunks a retrieve call returned
ReturnedChunks ==
    {CHOOSE c \in chunks : c.chunk_id = rq.metadata.chunks[i].chunk_id
        : i \in DOMAIN rq.metadata.chunks}

InRequestedEquipment ==
    \A c \in ReturnedChunks :
        StrOfObjectId(c.equipment_id) = rq.call.equipment_id

\* C2 (as claimed): whenever retrieve is given an equipment_id, no returned
\* chunk has another stored equipment_id.
C2_EquipmentScope_AsClaimed ==
    (Returned /\ rq.call.equipment_id # "") => InRequestedEquipment

\* C2 (amended): whenever retrieve is given a well-formed equipment_id and
\* extra_filters with no equipment_id key, no returned chunk has another
\* stored equipment_id, whatever the scores of the out-of-scope chunks.
C2_EquipmentScope ==
    (/\ Returned
     /\ ValidObjectId(rq.call.equipment_id)
     /\ "equipment_id" \notin DOMAIN rq.call.extra_filters)
        => InRequestedEquipment

\* C2 witness: a scoped call returned a chunk although an enabled chunk of
\* another equipment scores strictly higher for the query.
C2_Witness ==
    /\ Returned
    /\ ValidObjectId(rq.call.equipment_id)
    /\ rq.call.extra_filters = EmptyDict
    /\ \E c \in ReturnedChunks : \E d \in chunks :
          /\ StrOfObjectId(d.equipment_id) # rq.call.equipment_id
          /\ ~d.is_disabled
          /\ SearchScore(EmbedText(rq.call.query), d)
                > SearchScore(EmbedText(rq.call.query), c)

\* C3 (as claimed): whenever retrieve is given tenant_id = T, no returned
\* chunk has a stored tenant_id other than T, whatever the extra filters.
C3_TenantIsolation ==
    (Returned /\ rq.call.tenant_id # "") =>
        \A c \in ReturnedChunks : c.tenant_id = rq.call.tenant_id

\* C4 (as claimed): no retrieve call returns a chunk whose is_disabled is
\* true, whatever the extra filters.
C4_DisabledExcluded ==
    Returned => \A c \in ReturnedChunks : ~c.is_disabled

\* the neighbour search of the call was issued (the query was embedded)
SearchIssued == rq.state # "none" /\ rq.search_k # 0

\* C13: every retrieve call that reaches the neighbour search asks it for
\* max(20*k, 100) candidates, which is at least 100 and at least k, and a
\* call that returns hands back at most k results.
C13_OverFetch ==
    /\ SearchIssued =>
          /\ rq.search_k = (IF 20 * rq.call.k >= 100 THEN 20 * rq.call.k
                            ELSE 100)
          /\ rq.search_k >= 100 /\ rq.search_k >= rq.call.k
    /\ rq.state \in {"returned", "raised"} =>
          (SearchIssued <=> ~IsBlank(rq.call.query))
    /\ Returned => Len(rq.data) <= rq.call.k

\* C13 witness: a call with no scope filter over a store with more matching
\* chunks than k came back with exactly k results after a search for 100.
C13_Witness ==
    /\ Returned /\ rq.search_k = 100
    /\ rq.call.equipment_id = "" /\ rq.call.tenant_id = ""
    /\ rq.call.extra_filters = EmptyDict
    /\ Cardinality({c \in chunks : ~c.is_disabled}) > rq.call.k
    /\ Len(rq.data) = rq.call.k

\* the stored record behind the i-th entry of metadata.chunks
StoredOf(i) == CHOOSE c \in chunks : c.chunk_id = rq.metadata.chunks[i].chunk_id

\* C14: every RetrievalResult has as many data entries as metadata.chunks
\* entries, that number is chunks_retrieved and at most k; data[i] and
\* metadata.chunks[i] describe the same stored chunk; and the scores do not
\* increase along the list.
C14_ResultShape ==
    Returned =>
        /\ Len(rq.data) = Len(rq.metadata.chunks)
        /\ Len(rq.data) = rq.metadata.chunks_retrieved
        /\ rq.metadata.chunks_retrieved <= rq.call.k
        /\ \A i \in DOMAIN rq.data :
              /\ \E c \in chunks : c.chunk_id = rq.metadata.chunks[i].chunk_id
              /\ rq.data[i].text = StoredOf(i).text
              /\ rq.data[i].file_name = StoredOf(i).file_name
              /\ rq.metadata.chunks[i].file_name = StoredOf(i).file_name
              /\ rq.metadata.chunks[i].chunk_index = StoredOf(i).chunk_index
              /\ rq.metadata.chunks[i].document_id
                    = StrOfObjectId(StoredOf(i).document_id)
              /\ rq.data[i].score = rq.metadata.chunks[i].score
              /\ rq.data[i].score
                    = SearchScore(EmbedText(rq.call.query), StoredOf(i))
        /\ \A i \in DOMAIN rq.data : \A j \in DOMAIN rq.data :
              i < j => rq.data[i].score >= rq.data[j].score

\* C14 witness: two results of different score came back, the better one
\* first although it was stored last.
C14_Witness ==
    /\ Returned /\ Len(rq.data) = 2
    /\ rq.data[1].score > rq.data[2].score
    /\ rq.metadata.chunks[1].chunk_id[1] > rq.metadata.chunks[2].chunk_id[1]

\* the stored chunks that pass the $match of the call
MatchingChunks ==
    {c \in chunks :
        Matches(c, MatchFilters(rq.call.equipment_id, rq.call.tenant_id,
                                rq.call.extra_filters))}

\* C22 (state part): a retrieve call whose query cannot be embedded has
\* raised; a call that raised hands back no data and no metadata; a call
\* that returned hands back every matching chunk up to k, never fewer.
C22_RaisedOrComplete ==
    /\ (rq.state # "none" /\ IsBlank(rq.call.query)) => rq.state = "raised"
    /\ rq.state = "raised" =>
          /\ "data" \notin DOMAIN rq /\ "metadata" \notin DOMAIN rq
          /\ rq.error \in {"ValueError", "OperationFailure", "ValidationError"}
    /\ Returned =>
          Len(rq.data) = (IF Cardinality(MatchingChunks) <= rq.call.k
                          THEN Cardinality(MatchingChunks) ELSE rq.call.k)

\* C22: retrieve is all-or-nothing: when query embedding, search execution
\* or result shaping fails it raises and returns no RetrievalResult, when it
\* returns the list is complete, and no retrieve step changes a stored
\* record.
C22_AllOrNothing ==
    [](C22_RaisedOrComplete) /\ [][UNCHANGED dbvars]_vars

\* C22 witness: result shaping failed although stored chunks matched, and
\* the call raised.
C22_Witness ==
    /\ rq.state = "raised" /\ rq.error = "ValidationError"
    /\ MatchingChunks # {}

----------------------------------------------------------------------------
(* Properties of the search_knowledge_base tool *)

ToolCallEnded == tool.pc = "done"

\* C15: every search_knowledge_base call that ends, whether retrieval
\* returned, raised at any stage, or the client event could not be emitted,
\* has handed a result object to the conversation loop and let no exception
\* out of the handler; when retrieval raised the result is {results: []},
\* and when the event emission raised {results: []} is handed over as well.
C15_ToolAlwaysAnswers ==
    /\ tool.pc # "escaped"
    /\ ToolCallEnded =>
          /\ Len(tool.delivered) >= 1
          /\ rq.state = "raised" => tool.delivered = <<EmptyResults>>
          /\ tool.emit_failed =>
                tool.delivered[Len(tool.delivered)] = EmptyResults
          /\ (rq.state = "returned" /\ ~tool.emit_failed) =>
                tool.delivered = <<CleanData(rq)>>

\* C15 witness: a call whose search failed after the query was embedded has
\* ended.
C15_Witness ==
    /\ ToolCallEnded
    /\ rq.state = "raised" /\ rq.error = "OperationFailure"
    /\ chunks # {}

\* the tool call went through its try block without an exception
ToolCallSucceeded == ToolCallEnded /\ Returned /\ ~tool.emit_failed

\* the event lists the chunks of the result handed to the LLM, in its order
EventMatchesResult(ev, res) ==
    /\ ev.type = "search_knowledge_base"
    /\ Len(ev.chunks) = Len(res.results)
    /\ \A i \in DOMAIN ev.chunks :
          /\ ev.chunks[i].id = res.results[i].id
          /\ ev.chunks[i].text = res.results[i].content
          /\ ev.chunks[i].metadata.chunk_id = res.results[i].id

\* C23 (state part): at most one event per call; an event exists only once
\* the result object has been handed over, and lists that result's chunks in
\* its order; a call that went through has exactly one event, a call that
\* failed has none.
C23_EventState ==
    /\ tool.pc # "none" =>
          /\ Len(tool.events) <= 1
          /\ tool.events # <<>> =>
                /\ Len(tool.delivered) = 1
                /\ tool.delivered[1] = CleanData(rq)
                /\ EventMatchesResult(tool.events[1], tool.delivered[1])
    /\ ToolCallSucceeded => Len(tool.events) = 1
    /\ (ToolCallEnded /\ ~ToolCallSucceeded) => tool.events = <<>>

\* C23 (step part): the step that emits an event starts from a state in
\* which the result object has already been handed over.
C23_EmitAfterDeliver ==
    (tool.pc # "none" /\ tool'.events # tool.events /\ tool'.events # <<>>)
        => (Len(tool.delivered) = 1 /\ tool'.delivered = tool.delivered)

\* C23: on a successful search_knowledge_base call the client event is
\* emitted exactly once, after the {results: [{id, content}]} object was
\* handed to the LLM, and lists the same chunks in the same order; on a
\* failed call no event is emitted.
C23_EventOnSuccess == [](C23_EventState) /\ [][C23_EmitAfterDeliver]_vars

\* C23 witness: a call over two matching chunks went through and its event
\* lists both.
C23_Witness ==
    /\ ToolCallSucceeded
    /\ Len(tool.events) = 1 /\ Len(tool.events[1].chunks) = 2

\* C29 (as claimed): every search_knowledge_base call invokes the result
\* callback exactly once, on every path.
C29_CallbackOnce == ToolCallEnded => Len(tool.delivered) = 1

----------------------------------------------------------------------------
(* Properties of the equipment endpoints *)

Answered(op) == api.op = op /\ api.pc = "done"

\* the id of the request as an ObjectId (for a well-formed id)
RequestOid == ObjectId(api.equipment_id)

StoreUnchanged ==
    /\ equipment = api.equipment0
    /\ documents = api.docs0
    /\ chunks = api.chunks0

\* C16: a delete_equipment that answers 200 for an equipment with D
\* Documents and C Chunks has removed the equipment, exactly those D
\* Documents and exactly those C Chunks, reports equipment_deleted = 1,
\* documents_deleted = D and chunks_deleted = C, and every retrieve made
\* afterwards with that equipment_id returns no result.
C16_DeleteCascades ==
    (Answered("delete") /\ api.response.status = 200) =>
        LET E == {e \in api.equipment0 : e._id = RequestOid}
            D == {d \in api.docs0 : d.equipment_id = RequestOid}
            C == {c \in api.chunks0 : c.equipment_id = RequestOid}
        IN  /\ Cardinality(E) = 1
            /\ equipment = api.equipment0 \ E
            /\ documents = api.docs0 \ D
            /\ chunks = api.chunks0 \ C
            /\ api.response.body.equipment_deleted = 1
            /\ api.response.body.documents_deleted = Cardinality(D)
            /\ api.response.body.chunks_deleted = Cardinality(C)
            /\ (Returned /\ rq.call.equipment_id = api.equipment_id) =>
                  (Len(rq.data) = 0 /\ rq.metadata.chunks_retrieved = 0)

\* C16 witness: an equipment with two Documents and more Chunks than
\* Documents was deleted, and a retrieve scoped to it came back empty.
C16_Witness ==
    /\ Answered("delete") /\ api.response.status = 200
    /\ api.response.body.documents_deleted = 2
    /\ api.response.body.chunks_deleted > 2
    /\ Returned /\ rq.call.equipment_id = api.equipment_id
    /\ Len(rq.data) = 0

\* C17: delete_equipment answers a malformed id with 400 "Invalid
\* equipment_id format" and a well-formed id that names no equipment with
\* 404 (storage answering the lookup), and in both cases equipment,
\* documents and chunks are what they were.
C17_DeleteRejects ==
    Answered("delete") =>
        /\ ~ValidObjectId(api.equipment_id) =>
              /\ api.response.status = 400
              /\ api.response.body.detail = "Invalid equipment_id format"
        /\ (/\ ValidObjectId(api.equipment_id)
            /\ \A e \in api.equipment0 : e._id # RequestOid
            /\ ~api.fault) => api.response.status = 404
        /\ api.response.status \in {400, 404} => StoreUnchanged

\* C17 witness: a delete with a malformed id was answered while Documents
\* and Chunks exist.
C17_Witness ==
    /\ Answered("delete") /\ api.equipment_id = "bad"
    /\ api.response.status = 400
    /\ documents # {} /\ chunks # {}

\* C18 (as claimed): every endpoint with an equipment id in its path answers
\* a malformed id with 400 and writes nothing.
C18_MalformedIdIs400 ==
    (api.pc = "done" /\ ~ValidObjectId(api.equipment_id)) =>
        (api.response.status = 400 /\ StoreUnchanged)

\* C19 (as claimed): the served GET /equipment/{id}/documents returns
\* exactly the Documents of the equipment whose is_disabled is not true,
\* newest first, with string ids and ISO timestamps, and changes no record.
C19_ListDocuments ==
    (Answered("list_documents") /\ api.response.status = 200) =>
        LET docs == api.response.body.documents
            want == {d \in documents :
                        d.equipment_id = RequestOid /\ ~d.is_disabled}
        IN  /\ api.response.body.count = Len(docs)
            /\ Len(docs) = Cardinality(want)
            /\ \A d \in want : \E i \in DOMAIN docs :
                  /\ docs[i]._id = StrOfObjectId(d._id)
                  /\ docs[i].equipment_id = api.equipment_id
                  /\ docs[i].created_at = IsoFormat(d.created_at)
            /\ \A i \in DOMAIN docs : \A j \in DOMAIN docs :
                  i < j => docs[i].created_at.iso >= docs[j].created_at.iso
            /\ StoreUnchanged

\* records that reference the equipment of the request are still stored
CascadeIncomplete ==
    \/ \E e \in equipment : e._id = RequestOid
    \/ \E d \in documents : d.equipment_id = RequestOid
    \/ \E c \in chunks : c.equipment_id = RequestOid

\* C21: a delete_equipment in which one of the three deletions raised does
\* not answer with its success response: the caller gets a 500, and a 200 is
\* only ever sent when every deletion ran and nothing of the equipment is
\* left.
C21_PartialCascadeReported ==
    Answered("delete") =>
        /\ api.fault => api.response.status = 500
        /\ api.response.status = 200 => (~api.fault /\ ~CascadeIncomplete)

\* C21 witness: the chunks were deleted, the deletion of the documents
\* raised, and the request has been answered with documents still stored.
C21_Witness ==
    /\ Answered("delete") /\ api.fault
    /\ chunks # api.chunks0
    /\ documents = api.docs0
    /\ \E d \in documents : d.equipment_id = RequestOid

----------------------------------------------------------------------------
(* Properties of create_equipment *)

\* the name of request i existed for its tenant when the request looked
DuplicateSeen(i) ==
    \E e \in cr[i].seen :
        e.name = cr[i].name /\ e.tenant_id = cr[i].tenant_id

\* C20: a create_equipment request whose name already exists for the same
\* tenant is answered 409 and inserts nothing; a request whose name exists
\* only under other tenants (or not at all) is answered 201 and inserts
\* exactly one record, with its name and tenant; and the collection holds
\* nothing but the initial records and those insertions.
C20_CreateConflict ==
    /\ \A i \in DOMAIN cr :
          (cr[i].pc = "done" /\ ~cr[i].fault) =>
              IF DuplicateSeen(i)
              THEN cr[i].response.status = 409 /\ cr[i].inserted = {}
              ELSE /\ cr[i].response.status = 201
                   /\ Cardinality(cr[i].inserted) = 1
                   /\ \A e \in cr[i].inserted :
                         /\ e.name = cr[i].name
                         /\ e.tenant_id = cr[i].tenant_id
                         /\ e \in equipment
                         /\ cr[i].response.body._id = StrOfObjectId(e._id)
    /\ equipment = Equipment0 \cup
          UNION {IF cr[i].pc = "done" THEN cr[i].inserted ELSE {}
                    : i \in DOMAIN cr}

\* C20 witness: one request was refused for a name its tenant already has,
\* and another was accepted with the same name under a different tenant.
C20_Witness ==
    \E i \in DOMAIN cr : \E j \in DOMAIN cr :
        /\ cr[i].pc = "done" /\ cr[j].pc = "done"
        /\ cr[i].name = cr[j].name /\ cr[i].tenant_id # cr[j].tenant_id
        /\ cr[i].response.status = 409 /\ DuplicateSeen(i)
        /\ cr[j].response.status = 201
        /\ \E e \in cr[j].seen : e.name = cr[j].name


\* C25 (as claimed): under any interleaving of create_equipment requests, the
\* equipment collection never holds two records with the same name and
\* tenant_id.
C25_UniqueNameTenant ==
    \A a \in equipment : \A b \in equipment :
        (a.name = b.name /\ a.tenant_id = b.tenant_id) => a = b


----------------------------------------------------------------------------
(* Properties of uploads and deletions together *)

\* the upload and the deletion of the same equipment have both been answered,
\* the deletion with its counts
BothFinished ==
    /\ pc = "done"
    /\ api.op = "delete" /\ api.pc = "done" /\ api.response.status = 200
    /\ req.equipment_id = api.equipment_id

\* C26 (as claimed): under any interleaving of delete_equipment(E) with an
\* in-flight upload to E, once both have finished no Document and no Chunk
\* references E.
C26_NothingReferencesDeleted ==
    BothFinished =>
        /\ DocumentsOfEquipment(ObjectId(api.equipment_id)) = {}
        /\ ChunksOfEquipment(ObjectId(api.equipment_id)) = {}

\* C28: referential integrity of chunks: in every state reached by uploads
\* and equipment deletions served one after the other, the states between the
\* storage steps of a deletion included, every Chunk's document_id names a
\* Document that exists, with the Chunk's equipment_id and tenant_id.
C28_ChunkReferencesDocument ==
    \A c \in chunks :
        \E d \in documents :
            /\ d._id = c.document_id
            /\ d.equipment_id = c.equipment_id
            /\ d.tenant_id = c.tenant_id

\* C28 witness: a deletion stands between its two delete_many calls: the
\* Chunks of the equipment are gone, its Document is still there.
C28_Witness ==
    /\ api.op = "delete" /\ api.pc = "delete_documents"
    /\ api.deleted.chunks >= 1
    /\ DocumentsOfEquipment(ObjectId(api.equipment_id)) # {}


----------------------------------------------------------------------------
(* Properties of concurrent retrieve calls *)

\* session s has computed its query embedding
Embedded(s) == calls[s].pc \in {"search", "done"} /\ ~IsBlank(calls[s].call.query)

\* what embed_text yields for the text in a process where nothing else runs
AloneEmbedding(text) == EmbedTextOn(NpFresh, text).vector

\* what the call of session s returns or raises when it runs alone on the
\* chunk collection as it is, the search answering as it did
AloneResult(s) ==
    Retrieve(chunks, calls[s].call.query, calls[s].call.k,
             calls[s].call.equipment_id, calls[s].call.tenant_id, EmptyDict,
             calls[s].search_ok, TRUE)

\* C27: concurrent retrieve calls do not affect each other: under every
\* interleaving at the awaits, each call's query embedding and its result are
\* those of the same call running alone on the same chunk collection, and
\* embed_text of the same text yields the same vector whatever state the
\* process-wide generator was left in.
C27_CallsIndependent ==
    /\ \A s \in Sessions :
          Embedded(s) =>
              /\ calls[s].query_embedding = AloneEmbedding(calls[s].call.query)
              /\ calls[s].query_embedding = EmbedText(calls[s].call.query)
    /\ \A s \in Sessions :
          calls[s].pc = "done" => calls[s].result = AloneResult(s)
    /\ \A s \in Sessions : \A t \in Sessions :
          (Embedded(s) /\ Embedded(t)
              /\ calls[s].call.query = calls[t].call.query) =>
                  calls[s].query_embedding = calls[t].query_embedding

\* C27 witness: s1 returned chunks although s2, with another query, reseeded
\* the generator after s1's embedding and is still waiting for its search.
C27_Witness ==
    /\ calls["s1"].pc = "done" /\ calls["s1"].result.state = "returned"
    /\ Len(calls["s1"].result.data) >= 1
    /\ calls["s2"].pc = "search"
    /\ calls["s1"].call.query # calls["s2"].call.query
    /\ rng.seed = Sha256Seed(calls["s2"].call.query)
    /\ rng.seed # Sha256Seed(calls["s1"].call.query)

----------------------------------------------------------------------------
(* Properties of the upload rate limit *)

\* the requests admitted for client c during the last minute
AdmittedLastMinute(c) == limiter.admitted_prev[c] + limiter.admitted_now[c]

====
